---- MODULE Spec2Model ----
(***************************************************************************)
(* Model of python/cudf/cudf/core/_compat.py: the module body is a flat    *)
(* sequence of assignments executed once at import.  Each statement is one *)
(* action; a statement either binds its name or raises, which ends the     *)
(* import.  packaging.version.parse and the ordering of Version objects    *)
(* are modelled by what they do on the characters of the version string.   *)
(***************************************************************************)
EXTENDS Integers, Sequences, FiniteSets, TLC

VARIABLES pc, pd_version, exc, PANDAS_CURRENT_SUPPORTED_VERSION, PANDAS_VERSION, PANDAS_GE_210, PANDAS_GE_220, PANDAS_LT_300

vars == <<pc, pd_version, exc, PANDAS_CURRENT_SUPPORTED_VERSION, PANDAS_VERSION, PANDAS_GE_210, PANDAS_GE_220, PANDAS_LT_300>>

(***************************************************************************)
(* Bounds of the installed versions that are enumerated.                   *)
(***************************************************************************)
MaxMajor == 3

MaxMinor == 3

MaxPatch == 1

(***************************************************************************)
(* Characters.  A Python str is a sequence of one-character strings.       *)
(***************************************************************************)
DIGITS == <<"0", "1", "2", "3", "4", "5", "6", "7", "8", "9">>

LOWERCASE == <<"a", "b", "c", "d", "e", "f", "g", "h", "i", "j", "k", "l", "m", "n", "o", "p", "q", "r", "s", "t", "u", "v", "w", "x", "y", "z">>

UPPERCASE == <<"A", "B", "C", "D", "E", "F", "G", "H", "I", "J", "K", "L", "M", "N", "O", "P", "Q", "R", "S", "T", "U", "V", "W", "X", "Y", "Z">>

IndexOf(seq, c) == CHOOSE i \in 1..Len(seq) : seq[i] = c

IsDigit(c) == \E i \in 1..Len(DIGITS) : DIGITS[i] = c

IsLower(c) == \E i \in 1..Len(LOWERCASE) : LOWERCASE[i] = c

IsUpper(c) == \E i \in 1..Len(UPPERCASE) : UPPERCASE[i] = c

IsAlnum(c) == IsDigit(c) \/ IsLower(c)

IsSep(c) == c \in {"-", "_", "."}

IsSpace(c) == c = " "

\* ord(c) for the characters a local version segment can hold
ord(c) == IF IsDigit(c) THEN 47 + IndexOf(DIGITS, c) ELSE 96 + IndexOf(LOWERCASE, c)

\* str.lower()
str_lower(s) == [i \in 1..Len(s) |-> IF IsUpper(s[i]) THEN LOWERCASE[IndexOf(UPPERCASE, s[i])] ELSE s[i]]

\* the character at position i, "" past the end of the string
At(s, i) == IF i >= 1 /\ i <= Len(s) THEN s[i] ELSE ""

RECURSIVE int(_)
\* int(str) of a run of decimal digits; the empty run (an absent number) is 0
int(ds) == IF ds = <<>> THEN 0 ELSE 10 * int(SubSeq(ds, 1, Len(ds) - 1)) + (IndexOf(DIGITS, ds[Len(ds)]) - 1)

RECURSIVE str(_)
\* str(int) in decimal
str(n) == IF n < 10 THEN <<DIGITS[n + 1]>> ELSE str(n \div 10) \o <<DIGITS[(n % 10) + 1]>>

(***************************************************************************)
(* VERSION_PATTERN, matched greedily from the left between ^\s* and \s*$.  *)
(* Every scanner returns the position after what it consumed.              *)
(***************************************************************************)
RECURSIVE SpacesEnd(_, _)
SpacesEnd(s, i) == IF IsSpace(At(s, i)) THEN SpacesEnd(s, i + 1) ELSE i

RECURSIVE DigitsEnd(_, _)
DigitsEnd(s, i) == IF IsDigit(At(s, i)) THEN DigitsEnd(s, i + 1) ELSE i

RECURSIVE AlnumEnd(_, _)
AlnumEnd(s, i) == IF IsAlnum(At(s, i)) THEN AlnumEnd(s, i + 1) ELSE i

RECURSIVE ReleaseEnd(_, _)
\* (?:\.[0-9]+)* after the first release component
ReleaseEnd(s, i) == IF At(s, i) = "." /\ IsDigit(At(s, i + 1)) THEN ReleaseEnd(s, DigitsEnd(s, i + 1)) ELSE i

RECURSIVE LocalEnd(_, _)
\* (?:[-_\.][a-z0-9]+)* after the first local segment
LocalEnd(s, i) == IF IsSep(At(s, i)) /\ IsAlnum(At(s, i + 1)) THEN LocalEnd(s, AlnumEnd(s, i + 1)) ELSE i

StartsWith(s, i, w) == i + Len(w) - 1 <= Len(s) /\ SubSeq(s, i, i + Len(w) - 1) = w

\* the spellings of the pre-release letter, longest first, with the letter
\* _parse_letter_version normalises each to
PRE_L == <<
    [word |-> <<"a", "l", "p", "h", "a">>, norm |-> <<"a">>],
    [word |-> <<"a">>, norm |-> <<"a">>],
    [word |-> <<"b", "e", "t", "a">>, norm |-> <<"b">>],
    [word |-> <<"b">>, norm |-> <<"b">>],
    [word |-> <<"p", "r", "e", "v", "i", "e", "w">>, norm |-> <<"r", "c">>],
    [word |-> <<"p", "r", "e">>, norm |-> <<"r", "c">>],
    [word |-> <<"c">>, norm |-> <<"r", "c">>],
    [word |-> <<"r", "c">>, norm |-> <<"r", "c">>] >>

POST_L == <<
    [word |-> <<"p", "o", "s", "t">>, norm |-> <<"p", "o", "s", "t">>],
    [word |-> <<"r", "e", "v">>, norm |-> <<"p", "o", "s", "t">>],
    [word |-> <<"r">>, norm |-> <<"p", "o", "s", "t">>] >>

DEV_L == << [word |-> <<"d", "e", "v">>, norm |-> <<"d", "e", "v">>] >>

\* index of the first spelling of words found at position i, 0 when none is
FirstMatch(s, i, words) ==
    IF \E k \in 1..Len(words) : StartsWith(s, i, words[k].word)
    THEN CHOOSE k \in 1..Len(words) :
            /\ StartsWith(s, i, words[k].word)
            /\ \A j \in 1..(k - 1) : ~StartsWith(s, i, words[j].word)
    ELSE 0

\* [-_\.]? letter [-_\.]? [0-9]*  : val is <<>> (None) or <<letter, number>>
LetterGroup(s, i, words) ==
    LET p0 == IF IsSep(At(s, i)) THEN i + 1 ELSE i
        k == FirstMatch(s, p0, words)
    IN  IF k = 0
        THEN [end |-> i, val |-> <<>>]
        ELSE LET p1 == p0 + Len(words[k].word)
                 p2 == IF IsSep(At(s, p1)) THEN p1 + 1 ELSE p1
                 p3 == DigitsEnd(s, p2)
             IN  [end |-> p3, val |-> <<words[k].norm, int(SubSeq(s, p2, p3 - 1))>>]

\* post: -N, or the letter form
PostGroup(s, i) ==
    IF At(s, i) = "-" /\ IsDigit(At(s, i + 1))
    THEN [end |-> DigitsEnd(s, i + 1), val |-> <<POST_L[1].norm, int(SubSeq(s, i + 1, DigitsEnd(s, i + 1) - 1))>>]
    ELSE LetterGroup(s, i, POST_L)

RECURSIVE SplitRelease(_)
\* tuple(int(i) for i in release.split("."))
SplitRelease(r) ==
    LET d == DigitsEnd(r, 1)
    IN  IF d > Len(r) THEN <<int(r)>> ELSE <<int(SubSeq(r, 1, d - 1))>> \o SplitRelease(SubSeq(r, d + 1, Len(r)))

RECURSIVE _parse_local_version(_)
\* each segment of the local version: an int when all digits, else the string
_parse_local_version(l) ==
    LET e == AlnumEnd(l, 1)
        part == SubSeq(l, 1, e - 1)
        seg == IF DigitsEnd(part, 1) > Len(part)
               THEN [isnum |-> TRUE, n |-> int(part), s |-> <<>>]
               ELSE [isnum |-> FALSE, n |-> 0, s |-> part]
    IN  IF e > Len(l) THEN <<seg>> ELSE <<seg>> \o _parse_local_version(SubSeq(l, e + 1, Len(l)))

\* +local : val is <<>> (None) or the parsed segments
LocalGroup(s, i) ==
    IF At(s, i) = "+" /\ IsAlnum(At(s, i + 1))
    THEN LET e == LocalEnd(s, AlnumEnd(s, i + 1))
         IN  [end |-> e, val |-> _parse_local_version(SubSeq(s, i + 1, e - 1))]
    ELSE [end |-> i, val |-> <<>>]

\* what version.parse gives for a string the pattern does not match
InvalidVersion == [valid |-> FALSE, epoch |-> 0, release |-> <<>>, pre |-> <<>>, post |-> <<>>, dev |-> <<>>, local |-> <<>>]

\* packaging.version.parse (packaging 22 and later, where a string the pattern
\* does not match raises InvalidVersion): the Version of a string, or
\* InvalidVersion for the raise
parse(version) ==
    LET s == str_lower(version)
        p0 == SpacesEnd(s, 1)
        p1 == IF At(s, p0) = "v" THEN p0 + 1 ELSE p0
        e == DigitsEnd(s, p1)
        hasEpoch == e > p1 /\ At(s, e) = "!"
        p2 == IF hasEpoch THEN e + 1 ELSE p1
        r0 == DigitsEnd(s, p2)
        p3 == ReleaseEnd(s, r0)
        pre == LetterGroup(s, p3, PRE_L)
        post == PostGroup(s, pre.end)
        dev == LetterGroup(s, post.end, DEV_L)
        loc == LocalGroup(s, dev.end)
        p4 == SpacesEnd(s, loc.end)
    IN  IF r0 > p2 /\ p4 = Len(s) + 1
        THEN [valid |-> TRUE,
              epoch |-> IF hasEpoch THEN int(SubSeq(s, p1, e - 1)) ELSE 0,
              release |-> SplitRelease(SubSeq(s, p2, p3 - 1)),
              pre |-> pre.val, post |-> post.val, dev |-> dev.val, local |-> loc.val]
        ELSE InvalidVersion

(***************************************************************************)
(* Version._key and the rich comparisons of Version objects.               *)
(***************************************************************************)
Infinity == [inf |-> 1, l |-> <<>>, n |-> 0]

NegativeInfinity == [inf |-> -1, l |-> <<>>, n |-> 0]

\* a <<letter, number>> pair as a finite key element
Finite(pair) == [inf |-> 0, l |-> pair[1], n |-> pair[2]]

RECURSIVE StripTrailingZeros(_)
\* reversed(dropwhile(lambda x: x == 0, reversed(release)))
StripTrailingZeros(release) ==
    IF release # <<>> /\ release[Len(release)] = 0
    THEN StripTrailingZeros(SubSeq(release, 1, Len(release) - 1))
    ELSE release

\* packaging.version._cmpkey
_cmpkey(v) ==
    [epoch |-> v.epoch,
     release |-> StripTrailingZeros(v.release),
     pre |-> IF v.pre = <<>> /\ v.post = <<>> /\ v.dev # <<>> THEN NegativeInfinity
             ELSE IF v.pre = <<>> THEN Infinity
             ELSE Finite(v.pre),
     post |-> IF v.post = <<>> THEN NegativeInfinity ELSE Finite(v.post),
     dev |-> IF v.dev = <<>> THEN Infinity ELSE Finite(v.dev),
     local |-> v.local]

\* three-way comparison of two ints: -1, 0 or 1
IntCmp(x, y) == IF x < y THEN -1 ELSE IF x > y THEN 1 ELSE 0

RECURSIVE TupleCmp(_, _)
\* tuples of ints, as Python orders tuples
TupleCmp(a, b) ==
    IF a = <<>> /\ b = <<>> THEN 0
    ELSE IF a = <<>> THEN -1
    ELSE IF b = <<>> THEN 1
    ELSE IF a[1] # b[1] THEN IntCmp(a[1], b[1])
    ELSE TupleCmp(Tail(a), Tail(b))

RECURSIVE StrCmp(_, _)
\* strings, as Python orders str
StrCmp(a, b) ==
    IF a = <<>> /\ b = <<>> THEN 0
    ELSE IF a = <<>> THEN -1
    ELSE IF b = <<>> THEN 1
    ELSE IF a[1] # b[1] THEN IntCmp(ord(a[1]), ord(b[1]))
    ELSE StrCmp(Tail(a), Tail(b))

\* a key element: NegativeInfinity below, Infinity above every (letter, number)
ElemCmp(a, b) ==
    IF a.inf # b.inf THEN IntCmp(a.inf, b.inf)
    ELSE IF a.inf # 0 THEN 0
    ELSE IF a.l # b.l THEN StrCmp(a.l, b.l)
    ELSE IntCmp(a.n, b.n)

\* one local segment: (i, "") for an int, (NegativeInfinity, s) for a string
SegCmp(a, b) ==
    IF a.isnum /\ b.isnum THEN IntCmp(a.n, b.n)
    ELSE IF a.isnum THEN 1
    ELSE IF b.isnum THEN -1
    ELSE StrCmp(a.s, b.s)

RECURSIVE SegsCmp(_, _)
SegsCmp(a, b) ==
    IF a = <<>> /\ b = <<>> THEN 0
    ELSE IF a = <<>> THEN -1
    ELSE IF b = <<>> THEN 1
    ELSE IF SegCmp(a[1], b[1]) # 0 THEN SegCmp(a[1], b[1])
    ELSE SegsCmp(Tail(a), Tail(b))

\* the local part of a key: NegativeInfinity when there is none
LocalCmp(a, b) ==
    IF a = <<>> /\ b = <<>> THEN 0
    ELSE IF a = <<>> THEN -1
    ELSE IF b = <<>> THEN 1
    ELSE SegsCmp(a, b)

\* the keys (epoch, release, pre, post, dev, local) compared in that order
KeyCmp(a, b) ==
    IF a.epoch # b.epoch THEN IntCmp(a.epoch, b.epoch)
    ELSE IF TupleCmp(a.release, b.release) # 0 THEN TupleCmp(a.release, b.release)
    ELSE IF ElemCmp(a.pre, b.pre) # 0 THEN ElemCmp(a.pre, b.pre)
    ELSE IF ElemCmp(a.post, b.post) # 0 THEN ElemCmp(a.post, b.post)
    ELSE IF ElemCmp(a.dev, b.dev) # 0 THEN ElemCmp(a.dev, b.dev)
    ELSE LocalCmp(a.local, b.local)

\* Version.__ge__
version_ge(a, b) == KeyCmp(_cmpkey(a), _cmpkey(b)) >= 0

\* Version.__lt__
version_lt(a, b) == KeyCmp(_cmpkey(a), _cmpkey(b)) < 0

\* Version.__le__
version_le(a, b) == KeyCmp(_cmpkey(a), _cmpkey(b)) <= 0

\* Version.__eq__
version_eq(a, b) == KeyCmp(_cmpkey(a), _cmpkey(b)) = 0

(***************************************************************************)
(* The pandas that is installed: pd.__version__ is one of these strings.   *)
(***************************************************************************)
Releases ==
    {str(a) : a \in 0..MaxMajor}
    \cup {str(a) \o <<".">> \o str(b) : a \in 0..MaxMajor, b \in 0..MaxMinor}
    \cup {str(a) \o <<".">> \o str(b) \o <<".">> \o str(c) : a \in 0..MaxMajor, b \in 0..MaxMinor, c \in 0..MaxPatch}

Prefixes == {<<>>, <<"v">>, <<"1", "!">>}

Suffixes ==
    { <<>>,
      <<"r", "c", "0">>,
      <<"a", "1">>,
      <<".", "d", "e", "v", "0">>,
      <<".", "p", "o", "s", "t", "1">>,
      <<".", "p", "o", "s", "t", "1", ".", "d", "e", "v", "0">>,
      <<"+", "c", "u", "1", "2">>,
      <<".", "d", "e", "v", "0", "+", "7", ".", "g", "a", "b">>,
      <<".">>,
      <<"x">> }

OtherVersions ==
    { <<>>,
      <<"m", "a", "i", "n">>,
      <<"2", ".", ".", "1">>,
      <<"2", ".", "1", ".", "0", "+">>,
      <<"2", ".", "1", "0", ".", "0">>,
      <<"1", "0", ".", "0">>,
      <<"2", ".", "2", ".", "3">>,
      <<"2", ".", "2", ".", "3", ".", "0">>,
      <<" ", "2", ".", "2", ".", "3", " ">>,
      <<"2", ".", "1", ".", "0", "R", "C", "0">>,
      <<"2", ".", "2", ".", "0", "-", "1">>,
      <<"3", ".", "0", ".", "0", "b", "2">>,
      <<"3", ".", "0", ".", "0", ".", "d", "e", "v", "0">>,
      <<"3", ".", "0", ".", "0", "+", "a", "b">>,
      <<"3", ".", "0", ".", "0", "+", "1">> }

InstalledVersions == {p \o r \o s : p \in Prefixes, r \in Releases, s \in Suffixes} \cup OtherVersions

(***************************************************************************)
(* The module body.  A name is <<>> until its statement binds it, <<x>>    *)
(* after; exc is the exception the import ended in, "" when none.          *)
(***************************************************************************)
\* the supported version moved to the 3.0.0 threshold
SUPPORTED_300 == <<"3", ".", "0", ".", "0">>

\* the version literals of the source
SUPPORTED == <<"2", ".", "2", ".", "3">>

V210 == <<"2", ".", "1", ".", "0">>

V220 == <<"2", ".", "2", ".", "0">>

V300 == <<"3", ".", "0", ".", "0">>

\* version.parse of the literals, as lines 6 and 10 to 12 evaluate them
PARSED_SUPPORTED == parse(SUPPORTED)

PARSED_210 == parse(V210)

PARSED_220 == parse(V220)

PARSED_300 == parse(V300)

\* line 10 with > for >=
flag_GE_210_strict(v) == version_lt(PARSED_210, v)

\* line 11 with == for >=
flag_GE_220_equal(v) == version_eq(v, PARSED_220)

\* line 10 comparing the release tuple alone with (2, 1, 0)
flag_GE_210_release_only(v) == TupleCmp(v.release, <<2, 1, 0>>) >= 0

\* line 11 with the literal of line 10
flag_GE_220_wrong_literal(v) == version_ge(v, PARSED_210)

\* line 12 with <= for <
flag_LT_300_inclusive(v) == version_le(v, PARSED_300)

\* line 12 with the literal of line 10
flag_LT_300_wrong_literal(v) == version_lt(v, PARSED_210)

\* the right-hand sides of lines 10 to 12 for an installed version v
flag_GE_210(v) == version_ge(v, PARSED_210)

flag_GE_220(v) == version_ge(v, PARSED_220)

flag_LT_300(v) == version_lt(v, PARSED_300)

Init ==
    /\ pc = "line6"
    /\ pd_version \in InstalledVersions
    /\ exc = ""
    /\ PANDAS_CURRENT_SUPPORTED_VERSION = <<>>
    /\ PANDAS_VERSION = <<>>
    /\ PANDAS_GE_210 = <<>>
    /\ PANDAS_GE_220 = <<>>
    /\ PANDAS_LT_300 = <<>>

\* a statement whose version.parse raises: the import ends there
Raise ==
    /\ pc' = "raised"
    /\ exc' = "InvalidVersion"

\* line 6 reading the installed version in place of the literal
Set_PANDAS_CURRENT_SUPPORTED_VERSION_from_installed ==
    /\ pc = "line6"
    /\ IF parse(pd_version).valid
       THEN /\ PANDAS_CURRENT_SUPPORTED_VERSION' = <<parse(pd_version)>>
            /\ pc' = "line7"
            /\ UNCHANGED exc
       ELSE Raise /\ UNCHANGED PANDAS_CURRENT_SUPPORTED_VERSION
    /\ UNCHANGED <<pd_version, PANDAS_VERSION, PANDAS_GE_210, PANDAS_GE_220, PANDAS_LT_300>>

\* PANDAS_CURRENT_SUPPORTED_VERSION = version.parse("2.2.3")
Set_PANDAS_CURRENT_SUPPORTED_VERSION ==
    /\ pc = "line6"
    /\ IF PARSED_SUPPORTED.valid
       THEN /\ PANDAS_CURRENT_SUPPORTED_VERSION' = <<PARSED_SUPPORTED>>
            /\ pc' = "line7"
            /\ UNCHANGED exc
       ELSE Raise /\ UNCHANGED PANDAS_CURRENT_SUPPORTED_VERSION
    /\ UNCHANGED <<pd_version, PANDAS_VERSION, PANDAS_GE_210, PANDAS_GE_220, PANDAS_LT_300>>

\* line 7 recovering from a parse failure with version 0
Set_PANDAS_VERSION_fallback ==
    /\ pc = "line7"
    /\ PANDAS_VERSION' = IF parse(pd_version).valid THEN <<parse(pd_version)>> ELSE <<parse(<<"0">>)>>
    /\ pc' = "line10"
    /\ UNCHANGED <<exc, pd_version, PANDAS_CURRENT_SUPPORTED_VERSION, PANDAS_GE_210, PANDAS_GE_220, PANDAS_LT_300>>

\* PANDAS_VERSION = version.parse(pd.__version__)
Set_PANDAS_VERSION ==
    /\ pc = "line7"
    /\ IF parse(pd_version).valid
       THEN /\ PANDAS_VERSION' = <<parse(pd_version)>>
            /\ pc' = "line10"
            /\ UNCHANGED exc
       ELSE Raise /\ UNCHANGED PANDAS_VERSION
    /\ UNCHANGED <<pd_version, PANDAS_CURRENT_SUPPORTED_VERSION, PANDAS_GE_210, PANDAS_GE_220, PANDAS_LT_300>>

\* PANDAS_GE_210 = PANDAS_VERSION >= version.parse("2.1.0")
Set_PANDAS_GE_210 ==
    /\ pc = "line10"
    /\ IF PARSED_210.valid
       THEN /\ PANDAS_GE_210' = <<flag_GE_210(PANDAS_VERSION[1])>>
            /\ pc' = "line11"
            /\ UNCHANGED exc
       ELSE Raise /\ UNCHANGED PANDAS_GE_210
    /\ UNCHANGED <<pd_version, PANDAS_CURRENT_SUPPORTED_VERSION, PANDAS_VERSION, PANDAS_GE_220, PANDAS_LT_300>>

\* PANDAS_GE_220 = PANDAS_VERSION >= version.parse("2.2.0")
Set_PANDAS_GE_220 ==
    /\ pc = "line11"
    /\ IF PARSED_220.valid
       THEN /\ PANDAS_GE_220' = <<flag_GE_220(PANDAS_VERSION[1])>>
            /\ pc' = "line12"
            /\ UNCHANGED exc
       ELSE Raise /\ UNCHANGED PANDAS_GE_220
    /\ UNCHANGED <<pd_version, PANDAS_CURRENT_SUPPORTED_VERSION, PANDAS_VERSION, PANDAS_GE_210, PANDAS_LT_300>>

\* PANDAS_LT_300 = PANDAS_VERSION < version.parse("3.0.0")
Set_PANDAS_LT_300 ==
    /\ pc = "line12"
    /\ IF PARSED_300.valid
       THEN /\ PANDAS_LT_300' = <<flag_LT_300(PANDAS_VERSION[1])>>
            /\ pc' = "loaded"
            /\ UNCHANGED exc
       ELSE Raise /\ UNCHANGED PANDAS_LT_300
    /\ UNCHANGED <<pd_version, PANDAS_CURRENT_SUPPORTED_VERSION, PANDAS_VERSION, PANDAS_GE_210, PANDAS_GE_220>>

Next ==
    \/ Set_PANDAS_CURRENT_SUPPORTED_VERSION
    \/ Set_PANDAS_VERSION
    \/ Set_PANDAS_GE_210
    \/ Set_PANDAS_GE_220
    \/ Set_PANDAS_LT_300

Spec == Init /\ [][Next]_vars

(***************************************************************************)
(* The ordering of versions stated on their components, for the claims:    *)
(* releases compare component by component with missing components read    *)
(* as 0; a pre-release, or a dev release that is no post release, comes    *)
(* before the final release of the same number; any epoch above 0 comes    *)
(* after every version of epoch 0.                                         *)
(***************************************************************************)
Component(release, i) == IF i <= Len(release) THEN release[i] ELSE 0

Longest(a, b) == IF Len(a) >= Len(b) THEN Len(a) ELSE Len(b)

ReleaseAbove(release, t) ==
    \E i \in 1..Longest(release, t) :
        /\ Component(release, i) > Component(t, i)
        /\ \A j \in 1..(i - 1) : Component(release, j) = Component(t, j)

ReleaseSame(release, t) == \A i \in 1..Longest(release, t) : Component(release, i) = Component(t, i)

BeforeFinal(v) == v.pre # <<>> \/ (v.dev # <<>> /\ v.post = <<>>)

\* v >= the final release t of epoch 0
MeetsOrExceeds(v, t) ==
    \/ v.epoch > 0
    \/ ReleaseAbove(v.release, t)
    \/ ReleaseSame(v.release, t) /\ ~BeforeFinal(v)

TailPositive(release, from) == \E i \in from..Len(release) : release[i] > 0

Loaded == pc = "loaded"

\* the installed versions that parse, parsed
ParsedInstalled == {parse(s) : s \in InstalledVersions} \ {InvalidVersion}

(***************************************************************************)
(* Claims                                                                  *)
(***************************************************************************)

\* C1 as stated: every flag, PANDAS_LT_300 included, is true exactly when the
\* installed version meets or exceeds the flag's threshold.
C1_EveryFlagMeetsOrExceeds ==
    Loaded =>
        /\ PANDAS_GE_210[1] = MeetsOrExceeds(PANDAS_VERSION[1], <<2, 1, 0>>)
        /\ PANDAS_GE_220[1] = MeetsOrExceeds(PANDAS_VERSION[1], <<2, 2, 0>>)
        /\ PANDAS_LT_300[1] = MeetsOrExceeds(PANDAS_VERSION[1], <<3, 0, 0>>)

\* C1 amended: each flag, once bound, is decided by whether the installed
\* version meets or exceeds the flag's threshold: PANDAS_GE_210 and
\* PANDAS_GE_220 are true exactly when it does (2.1.0, 2.2.0), PANDAS_LT_300
\* is true exactly when it does not (3.0.0).
C1_FlagsDecidedByThreshold ==
    /\ PANDAS_GE_210 # <<>> => PANDAS_GE_210[1] = MeetsOrExceeds(PANDAS_VERSION[1], <<2, 1, 0>>)
    /\ PANDAS_GE_220 # <<>> => PANDAS_GE_220[1] = MeetsOrExceeds(PANDAS_VERSION[1], <<2, 2, 0>>)
    /\ PANDAS_LT_300 # <<>> => PANDAS_LT_300[1] = ~MeetsOrExceeds(PANDAS_VERSION[1], <<3, 0, 0>>)

\* C1 witness: a load whose installed version meets 3.0.0, so PANDAS_LT_300 is false
C1_Witness ==
    /\ Loaded
    /\ MeetsOrExceeds(PANDAS_VERSION[1], <<3, 0, 0>>)
    /\ PANDAS_LT_300 = <<FALSE>>
    /\ PANDAS_GE_210 = <<TRUE>>

\* C2: PANDAS_GE_210 is true iff the installed version is 2.1.0 or later and
\* PANDAS_GE_220 iff it is 2.2.0 or later, the threshold itself included.
C2_GE_Inclusive ==
    Loaded =>
        LET v == PANDAS_VERSION[1]
            major == Component(v.release, 1)
            minor == Component(v.release, 2)
            later == v.epoch >= 1 \/ major >= 3
        IN  /\ PANDAS_GE_210[1] <=>
                \/ later
                \/ major = 2 /\ minor >= 2
                \/ major = 2 /\ minor = 1 /\ (TailPositive(v.release, 3) \/ ~BeforeFinal(v))
            /\ PANDAS_GE_220[1] <=>
                \/ later
                \/ major = 2 /\ minor >= 3
                \/ major = 2 /\ minor = 2 /\ (TailPositive(v.release, 3) \/ ~BeforeFinal(v))
            /\ pd_version = V210 => PANDAS_GE_210[1]
            /\ pd_version = V220 => PANDAS_GE_220[1]

\* C2 witness: the installed version is exactly 2.1.0 and PANDAS_GE_210 is true
C2_Witness == Loaded /\ pd_version = V210 /\ PANDAS_GE_210 = <<TRUE>> /\ PANDAS_GE_220 = <<FALSE>>

\* C3: when pd.__version__ does not parse, the import ends at line 7 in
\* InvalidVersion, nothing runs after it, and none of PANDAS_VERSION,
\* PANDAS_GE_210, PANDAS_GE_220, PANDAS_LT_300 is bound.
C3_ParseFailureEndsImport ==
    (~parse(pd_version).valid /\ pc \notin {"line6", "line7"}) =>
        /\ pc = "raised"
        /\ exc = "InvalidVersion"
        /\ ~ENABLED Next
        /\ PANDAS_VERSION = <<>>
        /\ PANDAS_GE_210 = <<>>
        /\ PANDAS_GE_220 = <<>>
        /\ PANDAS_LT_300 = <<>>

\* C3 witness: the import of a pandas whose version is "main" has raised
C3_Witness == pc = "raised" /\ pd_version = <<"m", "a", "i", "n">> /\ exc = "InvalidVersion"

\* C4: for installed versions v <= w, PANDAS_GE_210 and PANDAS_GE_220 of v
\* imply those of w and PANDAS_LT_300 of w implies that of v; and in every
\* load PANDAS_GE_220 implies PANDAS_GE_210.
C4_Monotonic ==
    Loaded =>
        /\ PANDAS_GE_220[1] => PANDAS_GE_210[1]
        /\ \A w \in ParsedInstalled :
              version_le(PANDAS_VERSION[1], w) =>
                  /\ PANDAS_GE_210[1] => flag_GE_210(w)
                  /\ PANDAS_GE_220[1] => flag_GE_220(w)
                  /\ flag_LT_300(w) => PANDAS_LT_300[1]

\* C4 witness: a load below 2.2.0 with a later installed version at or above 3.0.0
C4_Witness ==
    /\ Loaded
    /\ PANDAS_GE_210 = <<TRUE>>
    /\ PANDAS_GE_220 = <<FALSE>>
    /\ \E w \in ParsedInstalled :
          version_le(PANDAS_VERSION[1], w) /\ flag_GE_220(w) /\ ~flag_LT_300(w)

\* C5: once line 6 has run, PANDAS_CURRENT_SUPPORTED_VERSION is the version
\* 2.2.3 whatever is installed, before and after the installed version is read,
\* also when the import raises.
C5_SupportedVersionFixed ==
    /\ pc = "line6" <=> PANDAS_CURRENT_SUPPORTED_VERSION = <<>>
    /\ pc # "line6" =>
          PANDAS_CURRENT_SUPPORTED_VERSION =
              << [valid |-> TRUE, epoch |-> 0, release |-> <<2, 2, 3>>,
                  pre |-> <<>>, post |-> <<>>, dev |-> <<>>, local |-> <<>>] >>

\* C5 witness: a finished load of a pandas that is not 2.2.3
C5_Witness ==
    /\ Loaded
    /\ PANDAS_VERSION[1].release # <<2, 2, 3>>
    /\ PANDAS_CURRENT_SUPPORTED_VERSION[1].release = <<2, 2, 3>>

\* C6: PANDAS_LT_300 is true iff the installed version is strictly below
\* 3.0.0; 3.0.0 itself gives false; it is the negation of v >= 3.0.0.
C6_LT_300_Strict ==
    Loaded =>
        LET v == PANDAS_VERSION[1]
            major == Component(v.release, 1)
        IN  /\ PANDAS_LT_300[1] <=>
                /\ v.epoch = 0
                /\ \/ major < 3
                   \/ major = 3 /\ ~TailPositive(v.release, 2) /\ BeforeFinal(v)
            /\ pd_version = V300 => ~PANDAS_LT_300[1]
            /\ PANDAS_LT_300[1] = ~version_ge(v, PARSED_300)

\* C6 witness: the installed version is exactly 3.0.0 and PANDAS_LT_300 is false
C6_Witness == Loaded /\ pd_version = V300 /\ PANDAS_LT_300 = <<FALSE>>

\* C7: a finished load has one of four flag combinations; PANDAS_LT_300 false
\* implies both GE flags, and PANDAS_GE_210 or PANDAS_LT_300 is true.
C7_FourCombinations ==
    Loaded =>
        /\ <<PANDAS_GE_210[1], PANDAS_GE_220[1], PANDAS_LT_300[1]>> \in
              { <<FALSE, FALSE, TRUE>>, <<TRUE, FALSE, TRUE>>,
                <<TRUE, TRUE, TRUE>>, <<TRUE, TRUE, FALSE>> }
        /\ ~PANDAS_LT_300[1] => PANDAS_GE_210[1] /\ PANDAS_GE_220[1]
        /\ PANDAS_GE_210[1] \/ PANDAS_LT_300[1]

\* C7 witness: the combination (true, false, true), between the two GE thresholds
C7_Witness == Loaded /\ <<PANDAS_GE_210, PANDAS_GE_220, PANDAS_LT_300>> = << <<TRUE>>, <<FALSE>>, <<TRUE>> >>

\* C8: a pre-release or dev release of a threshold is below it: 2.1.0rc0
\* gives PANDAS_GE_210 false, 2.2.0rc0 gives PANDAS_GE_220 false, 3.0.0rc0 and
\* 3.0.0.dev0 give PANDAS_LT_300 true.
C8_PreReleaseBelowThreshold ==
    /\ (pd_version = V210 \o <<"r", "c", "0">> /\ PANDAS_GE_210 # <<>>) => PANDAS_GE_210 = <<FALSE>>
    /\ (pd_version = V220 \o <<"r", "c", "0">> /\ PANDAS_GE_220 # <<>>) => PANDAS_GE_220 = <<FALSE>>
    /\ (pd_version = V300 \o <<"r", "c", "0">> /\ PANDAS_LT_300 # <<>>) => PANDAS_LT_300 = <<TRUE>>
    /\ (pd_version = V300 \o <<".", "d", "e", "v", "0">> /\ PANDAS_LT_300 # <<>>) => PANDAS_LT_300 = <<TRUE>>

\* C8 witness: 3.0.0.dev0 is installed and the load finished with PANDAS_LT_300 true
C8_Witness == Loaded /\ pd_version = V300 \o <<".", "d", "e", "v", "0">> /\ PANDAS_LT_300 = <<TRUE>>

\* C9: when the installed version equals PANDAS_CURRENT_SUPPORTED_VERSION,
\* all three flags are true.
C9_SupportedVersionConsistent ==
    (Loaded /\ version_eq(PANDAS_VERSION[1], PANDAS_CURRENT_SUPPORTED_VERSION[1])) =>
        /\ PANDAS_GE_210 = <<TRUE>>
        /\ PANDAS_GE_220 = <<TRUE>>
        /\ PANDAS_LT_300 = <<TRUE>>

\* C9 witness: pandas 2.2.3 is installed and the load finished
C9_Witness == Loaded /\ pd_version = SUPPORTED /\ PANDAS_VERSION = PANDAS_CURRENT_SUPPORTED_VERSION

====
